---- MODULE Spec2Model ----
(***************************************************************************)
(* A model of the AI-Pulse front end: the usage refresh orchestrator       *)
(* (hooks/useUsage.ts), the store entries it writes, and the error         *)
(* classifier of the session banner (detectBannerType).                    *)
(*                                                                         *)
(* JavaScript runs one task at a time: every action below is one task (an  *)
(* effect flush, an event handler, or the continuation of an await), and   *)
(* the awaits are the only places where tasks interleave.  A store write   *)
(* re-renders the subscribed component and flushes its effects before the  *)
(* next task runs, so a write and the effects it triggers are one action.  *)
(***************************************************************************)
EXTENDS Integers, Sequences, FiniteSets, TLC

\* ---------------------------------------------------------------- bounds
\* Total number of refresh() calls issued in one behaviour.
MaxCalls == 3
\* Number of fragments concatenated into an error string given to the banner.
MaxTokens == 2

\* ------------------------------------------------------------- constants
\* A JavaScript string is the sequence of its characters; null is a value
\* that is no string.
Null == <<"null">>

\* lib/types.ts: type ProviderId = "claude" | "codex"
ProviderId == {"claude", "codex"}

\* Values a rejected backend call can carry: an Error object or a plain string.
Thrown ==
    { [kind |-> "Error",  message |-> <<"4", "0", "1">>],
      [kind |-> "string", value   |-> <<"4", "2", "9">>] }

\* useUsage.ts line 19
NoCredentialsMessage ==
    << "N", "o", " ", "c", "r", "e", "d", "e", "n", "t", "i", "a", "l", "s",
       " ", "c", "o", "n", "f", "i", "g", "u", "r", "e", "d", ".", " ", "P",
       "l", "e", "a", "s", "e", " ", "s", "e", "t", " ", "u", "p", " ", "y",
       "o", "u", "r", " ", "c", "r", "e", "d", "e", "n", "t", "i", "a", "l",
       "s", " ", "i", "n", " ", "S", "e", "t", "t", "i", "n", "g", "s", "." >>

VARIABLES
    usage,        \* store: usage[p]       : UsageData | null
    isLoading,    \* store: isLoading[p]   : boolean
    error,        \* store: error[p]       : string | null
    lastRefresh,  \* store: lastRefresh[p] : Date | null
    now,          \* the clock read by new Date()
    mounted,      \* whether a component using useUsage is mounted
    provider,     \* the provider prop of the mounted hook
    hasFetched,   \* hasFetched.current of the current hook instance
    listeners,    \* tray-refresh handlers registered by listen() (handlers alike in
                  \* provider and state are one element)
    calls,        \* the refresh() calls in flight, in issue order
    issued,       \* history: number of refresh() calls issued so far
    startups,     \* history: startups[p] = refresh(p) calls of the initial-fetch effect
    last,         \* history: what the latest step did
    bannerError,  \* SessionBanner: its error prop (string | null)
    bannerType,   \* SessionBanner: detectBannerType(error) of the last render
    dismissed,    \* SessionBanner: state dismissed
    lastError,    \* SessionBanner: state lastError
    bannerPrev,   \* history: banner type and dismissed flag before the last prop change
    dismissedFor, \* history: the error dismissed, while every later error prop is it or null
    isOpen,           \* About: its isOpen prop
    updateState,      \* About: state updateState
    updateRef,        \* About: state updateRef (Update | null)
    downloadProgress, \* About: state downloadProgress
    aboutError,       \* About: state error (string | null)
    gateway,          \* About: the updater call awaited ("none", "check", "download"),
                      \*        or "exited" once relaunch() has ended the process
    relaunches,       \* About: relaunch() calls awaited
    totalSize,        \* downloadAndInstall: let totalSize
    downloaded,       \* downloadAndInstall: let downloaded
    stream,           \* the last download event delivered ("none" before Started)
    chunks,           \* history: chunk lengths of the Progress events of this download
    progressLog,      \* history: the values downloadProgress took during this download
    updateLast,       \* history: what the latest step of the controller did
    runs,             \* useEventListener: the runs of its effect, in order, each
                      \*   with its unmounted flag, its unlisten variable, whether
                      \*   its listen() promise has resolved and whether its
                      \*   handler is registered with the event system
    hookMounted,      \* useEventListener: a component using the hook is mounted
    delivery,         \* history: the runs whose handler the latest event invoked
    settingsOpen,     \* Settings: its isOpen prop
    orgId,            \* Settings: state orgId
    sessionKey,       \* Settings: state sessionKey
    isSaving,         \* Settings: state isSaving
    isDeleting,       \* Settings: state isDeleting
    settingsError,    \* Settings: state error (string | null)
    success,          \* Settings: state success (string | null)
    hasExisting,      \* Settings: state hasExisting
    stored,           \* backend: the credentials stored for "claude", or null
    saving,           \* the credentials of the saveCredentials call awaited, or null
    loads,            \* getCredentials calls awaited
    settingsLast      \* history: what the latest step of Settings did

storeVars == <<usage, isLoading, error, lastRefresh>>
hookVars == <<mounted, provider, hasFetched, listeners>>
bannerVars == <<bannerError, bannerType, dismissed, lastError, bannerPrev,
                dismissedFor>>
updateVars == <<isOpen, updateState, updateRef, downloadProgress, aboutError,
                gateway, relaunches, totalSize, downloaded, stream, chunks,
                progressLog, updateLast>>
\* The state of the components other than useUsage and SessionBanner.
listenerVars == <<runs, hookMounted, delivery>>
settingsVars == <<settingsOpen, orgId, sessionKey, isSaving, isDeleting,
                  settingsError, success, hasExisting, stored, saving, loads,
                  settingsLast>>
otherVars == <<updateVars, listenerVars, settingsVars>>
usageVars == <<storeVars, now, hookVars, calls, issued, startups, last>>
\* The state outside the update controller.
nonUpdateVars == <<usageVars, bannerVars, listenerVars, settingsVars>>
vars == <<usage, isLoading, error, lastRefresh, now, mounted, provider,
          hasFetched, listeners, calls, issued, startups, last,
          bannerError, bannerType, dismissed, lastError, bannerPrev,
          dismissedFor, isOpen, updateState, updateRef, downloadProgress, aboutError,
          gateway, relaunches, totalSize, downloaded, stream, chunks,
          progressLog, updateLast, runs, hookMounted, delivery,
          settingsOpen, orgId, sessionKey, isSaving, isDeleting, settingsError,
          success, hasExisting, stored, saving, loads, settingsLast>>

\* ------------------------------------------------------------ the store
\* The mutation API of the usage store (lib/store): each setter replaces one
\* field of one provider's entry.
setUsage(u, p, data) == [u EXCEPT ![p] = data]

setLoading(l, p, flag) == [l EXCEPT ![p] = flag]

setError(e, p, message) == [e EXCEPT ![p] = message]

setLastRefresh(r, p, date) == [r EXCEPT ![p] = date]

\* --------------------------------------------------- useUsage: refresh()
\* The calls of provider p that are awaiting a backend answer.
InFlight(p) == { k \in DOMAIN calls : calls[k].provider = p }

\* The calls of provider p awaiting fetchUsage (line 24).
Fetching(p) ==
    { k \in DOMAIN calls : calls[k].provider = p /\ calls[k].pc = "fetchUsage" }

\* The UsageData fetch_usage returns for provider p at time t: every response
\* is a value of its own (types.ts: { provider, timestamp, limits, raw }).
UsageDataOf(p, t) == <<"UsageData", p, t>>

\* err instanceof Error ? err.message : String(err)      (line 28)
ErrMessage(err) == IF err.kind = "Error" THEN err.message ELSE err.value

\* One of a batch of refresh(p) calls issued in one task: it has run lines
\* 12-13 and is suspended at `await hasCredentials(provider)` (line 17).
\* overlapped: another refresh(p) was in flight at some time during this call.
NewCall(p, batch) ==
    [ provider   |-> p,
      pc         |-> "hasCredentials",
      overlapped |-> (InFlight(p) # {} \/ batch > 1) ]

\* refresh() called once per element of triggers, in one task (lines 11-17):
\* setLoading(provider, true); setError(provider, null); then the
\* has_credentials command is issued and the call suspends.  Nothing in
\* refresh() consults isLoading or any in-flight marker.
refresh(p, triggers) ==
    IF triggers = <<>>
    THEN /\ UNCHANGED <<isLoading, error, calls, issued>>
         /\ last' = [ev |-> "none"]
    ELSE /\ isLoading' = setLoading(isLoading, p, TRUE)
         /\ error' = setError(error, p, Null)
         /\ issued' = issued + Len(triggers)
         /\ calls' =
              [ k \in DOMAIN calls |->
                  IF calls[k].provider = p
                  THEN [calls[k] EXCEPT !.overlapped = TRUE]
                  ELSE calls[k] ]
              \o [ n \in 1..Len(triggers) |-> NewCall(p, Len(triggers)) ]
         /\ last' = [ev |-> "refresh", provider |-> p, triggers |-> triggers]

\* The calls left in flight when call k has returned.
Remove(k) == [ m \in 1..(Len(calls) - 1) |-> IF m < k THEN calls[m] ELSE calls[m + 1] ]

\* The record kept of call k returning: its result and the value the backend
\* gave it (the data fetched, the value thrown, or the no-credentials message).
\* The record of a failure also names the kind of the value thrown.
Settle(k, result, value) ==
    IF result = "failed"
    THEN [ ev |-> "settled", provider |-> calls[k].provider,
           overlapped |-> calls[k].overlapped,
           fetched |-> (calls[k].pc = "fetchUsage"),
           result |-> result, value |-> value, kind |-> value.kind ]
    ELSE [ ev |-> "settled", provider |-> calls[k].provider,
           overlapped |-> calls[k].overlapped,
           fetched |-> (calls[k].pc = "fetchUsage"),
           result |-> result, value |-> value ]

\* ------------------------------------------------- useUsage: the effects
\* Effect "Initial fetch on mount" (lines 47-52), given hasFetched.current:
\* the refresh calls it makes.  It leaves hasFetched.current = true.
InitialFetchEffect(fetched) == IF ~fetched THEN <<"startup">> ELSE <<>>

\* RefetchEffect with the null test inverted.
RefetchEffect_Inverted(currentUsage, fetched) ==
    IF currentUsage # Null /\ fetched THEN <<"refetch">> ELSE <<>>

\* Effect "Refetch when usage is cleared" (lines 55-60), given the rendered
\* usage[provider] and hasFetched.current: the refresh calls it makes.
RefetchEffect(currentUsage, fetched) ==
    IF currentUsage = Null /\ fetched THEN <<"refetch">> ELSE <<>>

\* Cleanup of the tray-refresh effect (lines 41-43): unlisten.then(fn => fn()).
\* A handler whose listen() promise has resolved is unregistered before any
\* other task runs; one whose promise is pending stays registered until the
\* promise resolves.
ListenCleanup(ls) ==
    { [l EXCEPT !.cancelled = TRUE] : l \in { x \in ls : x.st = "pending" } }

\* The tray-refresh effect (lines 36-40): listen("tray-refresh", () => refresh())
\* with the refresh closure of provider p.  The event system registers the
\* handler, and the promise of listen() resolves later with the function
\* that unregisters it.
ListenEffect(ls, p) ==
    ls \cup { [provider |-> p, st |-> "pending", cancelled |-> FALSE] }

\* The number of "startup" entries of triggers.
CountStartup(triggers) ==
    Cardinality({ n \in DOMAIN triggers : triggers[n] = "startup" })

\* ------------------------------------------- SessionBanner: the classifier
\* BannerType = "expired" | "blocked" | "rate_limited" | "no_credentials" | null
expired == <<"e", "x", "p", "i", "r", "e", "d">>
blocked == <<"b", "l", "o", "c", "k", "e", "d">>
rate_limited == <<"r", "a", "t", "e", "_", "l", "i", "m", "i", "t", "e", "d">>
no_credentials == <<"n", "o", "_", "c", "r", "e", "d", "e", "n", "t", "i", "a", "l", "s">>

UpperCase ==
    << "A", "B", "C", "D", "E", "F", "G", "H", "I", "J", "K", "L", "M",
       "N", "O", "P", "Q", "R", "S", "T", "U", "V", "W", "X", "Y", "Z" >>
LowerCase ==
    << "a", "b", "c", "d", "e", "f", "g", "h", "i", "j", "k", "l", "m",
       "n", "o", "p", "q", "r", "s", "t", "u", "v", "w", "x", "y", "z" >>

\* String.prototype.toLowerCase
toLowerCase(s) ==
    [ i \in 1..Len(s) |->
        IF \E j \in 1..26 : UpperCase[j] = s[i]
        THEN LowerCase[CHOOSE j \in 1..26 : UpperCase[j] = s[i]]
        ELSE s[i] ]

\* String.prototype.includes
includes(s, sub) ==
    \E i \in 0..(Len(s) - Len(sub)) : SubSeq(s, i + 1, i + Len(sub)) = sub

\* detectBannerType with the blocked rule tested before the expired rule.
detectBannerType_BlockedFirst(err) ==
    IF err = Null \/ err = <<>>
    THEN Null
    ELSE LET lowerError == toLowerCase(err)
                  IN IF \/ includes(lowerError, <<"c", "l", "o", "u", "d", "f", "l", "a", "r", "e">>)
               \/ includes(lowerError, <<"b", "l", "o", "c", "k", "e", "d">>)
               \/ includes(lowerError, <<"4", "0", "3">>)
            THEN blocked
            ELSE IF \/ includes(lowerError, <<"s", "e", "s", "s", "i", "o", "n", " ", "e", "x", "p", "i", "r", "e", "d">>)
                    \/ includes(lowerError, <<"s", "e", "s", "s", "i", "o", "n", "e", "x", "p", "i", "r", "e", "d">>)
                    \/ includes(lowerError, <<"4", "0", "1">>)
                    \/ includes(lowerError, <<"u", "n", "a", "u", "t", "h", "o", "r", "i", "z", "e", "d">>)
            THEN expired
            ELSE IF \/ includes(lowerError, <<"r", "a", "t", "e", " ", "l", "i", "m", "i", "t">>)
                    \/ includes(lowerError, <<"4", "2", "9">>)
            THEN rate_limited
            ELSE IF \/ includes(lowerError, <<"n", "o", " ", "c", "r", "e", "d", "e", "n", "t", "i", "a", "l", "s">>)
                    \/ includes(lowerError, <<"m", "i", "s", "s", "i", "n", "g", " ", "c", "r", "e", "d", "e", "n", "t", "i", "a", "l", "s">>)
            THEN no_credentials
            ELSE Null

\* detectBannerType (UsageCard.tsx lines 43-77)
detectBannerType(err) ==
    IF err = Null \/ err = <<>>
    THEN Null
    ELSE LET lowerError == toLowerCase(err)
         IN IF \/ includes(lowerError, <<"s", "e", "s", "s", "i", "o", "n", " ", "e", "x", "p", "i", "r", "e", "d">>)
               \/ includes(lowerError, <<"s", "e", "s", "s", "i", "o", "n", "e", "x", "p", "i", "r", "e", "d">>)
               \/ includes(lowerError, <<"4", "0", "1">>)
               \/ includes(lowerError, <<"u", "n", "a", "u", "t", "h", "o", "r", "i", "z", "e", "d">>)
            THEN expired
            ELSE IF \/ includes(lowerError, <<"c", "l", "o", "u", "d", "f", "l", "a", "r", "e">>)
                    \/ includes(lowerError, <<"b", "l", "o", "c", "k", "e", "d">>)
                    \/ includes(lowerError, <<"4", "0", "3">>)
            THEN blocked
            ELSE IF \/ includes(lowerError, <<"r", "a", "t", "e", " ", "l", "i", "m", "i", "t">>)
                    \/ includes(lowerError, <<"4", "2", "9">>)
            THEN rate_limited
            ELSE IF \/ includes(lowerError, <<"n", "o", " ", "c", "r", "e", "d", "e", "n", "t", "i", "a", "l", "s">>)
                    \/ includes(lowerError, <<"m", "i", "s", "s", "i", "n", "g", " ", "c", "r", "e", "d", "e", "n", "t", "i", "a", "l", "s">>)
            THEN no_credentials
            ELSE Null

\* Fragments of the error strings the backend and the orchestrator produce.
Fragments ==
    { <<"S", "e", "s", "s", "i", "o", "n", " ", "E", "x", "p", "i", "r", "e", "d", ":", " ">>,
      <<"s", "e", "s", "s", "i", "o", "n", "e", "x", "p", "i", "r", "e", "d">>,
      <<"4", "0", "1">>,
      <<"U", "n", "a", "u", "t", "h", "o", "r", "i", "z", "e", "d">>,
      <<"C", "l", "o", "u", "d", "f", "l", "a", "r", "e">>,
      <<"B", "L", "O", "C", "K", "E", "D">>,
      <<"4", "0", "3">>,
      <<"R", "a", "t", "e", " ", "L", "i", "m", "i", "t">>,
      <<"4", "2", "9">>,
      <<"N", "o", " ", "C", "r", "e", "d", "e", "n", "t", "i", "a", "l", "s">>,
      <<"M", "i", "s", "s", "i", "n", "g", " ", "c", "r", "e", "d", "e", "n", "t", "i", "a", "l", "s">>,
      <<"4", "0">>,
      <<"3">>,
      <<" ", "f", "o", "r", "b", "i", "d", "d", "e", "n">> }

\* The error strings made of at most n fragments.
RECURSIVE ErrorStrings(_)
ErrorStrings(n) ==
    IF n = 0
    THEN { <<>> }
    ELSE LET shorter == ErrorStrings(n - 1)
         IN shorter \cup { s \o f : s \in shorter, f \in Fragments }

\* ------------------------------------------------------------------ Init
\* The store before any fetch: every entry empty.
InitStore ==
    /\ usage = [p \in ProviderId |-> Null]
    /\ isLoading = [p \in ProviderId |-> FALSE]
    /\ error = [p \in ProviderId |-> Null]
    /\ lastRefresh = [p \in ProviderId |-> Null]

\* No component mounted yet, no call issued.
InitHook ==
    /\ now = 0
    /\ mounted = FALSE
    /\ provider = "claude"
    /\ hasFetched = FALSE
    /\ listeners = {}
    /\ calls = <<>>
    /\ issued = 0
    /\ startups = [p \in ProviderId |-> 0]
    /\ last = [ev |-> "none"]

\* SessionBanner before its first error: error = null, no banner;
\* useState(false) and useState(null) (UsageCard.tsx lines 126-127).
InitBanner ==
    /\ bannerError = Null
    /\ bannerType = Null
    /\ dismissed = FALSE
    /\ lastError = Null
    /\ bannerPrev = [type |-> Null, dismissed |-> FALSE]
    /\ dismissedFor = Null

\* About before any check: the useState initial values (About.tsx lines
\* 17-22), no updater call made.
InitUpdate ==
    /\ isOpen = FALSE
    /\ updateState = "idle"
    /\ updateRef = Null
    /\ downloadProgress = 0
    /\ aboutError = Null
    /\ gateway = "none"
    /\ relaunches = 0
    /\ totalSize = 0
    /\ downloaded = 0
    /\ stream = "none"
    /\ chunks = <<>>
    /\ progressLog = <<>>
    /\ updateLast = [ev |-> "none"]

\* No component using useEventListener mounted yet.
InitListener ==
    /\ runs = <<>>
    /\ hookMounted = FALSE
    /\ delivery = {}

\* Settings closed, its useState initial values (Settings.tsx lines 16-23),
\* and a backend that holds no credentials yet.
InitSettings ==
    /\ settingsOpen = FALSE
    /\ orgId = <<>>
    /\ sessionKey = <<>>
    /\ isSaving = FALSE
    /\ isDeleting = FALSE
    /\ settingsError = Null
    /\ success = Null
    /\ hasExisting = FALSE
    /\ stored = Null
    /\ saving = Null
    /\ loads = 0
    /\ settingsLast = [ev |-> "none"]

Init ==
    InitStore /\ InitHook /\ InitBanner /\ InitUpdate /\ InitListener /\ InitSettings

\* --------------------------------------------------------------- actions
\* A component using useUsage(p) mounts: a new hook instance (useRef(false)),
\* whose three effects run in source order in one flush.  The refetch effect
\* reads hasFetched.current after the initial-fetch effect has set it.
Mount(p) ==
    /\ ~mounted
    /\ LET triggers == InitialFetchEffect(FALSE) \o RefetchEffect(usage[p], TRUE)
       IN /\ issued + Len(triggers) <= MaxCalls
          /\ refresh(p, triggers)
          /\ startups' = [startups EXCEPT ![p] = @ + CountStartup(triggers)]
    /\ mounted' = TRUE
    /\ provider' = p
    /\ hasFetched' = TRUE
    /\ listeners' = ListenEffect(listeners, p)
    /\ UNCHANGED <<usage, lastRefresh, now, bannerVars, otherVars>>

\* The component unmounts: the tray-refresh cleanup runs and the hook instance
\* (with its hasFetched ref) is discarded.  Calls in flight are not cancelled.
Unmount ==
    /\ mounted
    /\ mounted' = FALSE
    /\ hasFetched' = FALSE
    /\ listeners' = ListenCleanup(listeners)
    /\ last' = [ev |-> "none"]
    /\ UNCHANGED <<storeVars, now, provider, calls, issued, startups, bannerVars, otherVars>>

\* The provider prop changes to q: refresh gets a new identity (line 33), so
\* all three effects re-run for q with the same hasFetched ref.
SetProvider(q) ==
    /\ mounted
    /\ q # provider
    /\ LET triggers == InitialFetchEffect(hasFetched)
                         \o RefetchEffect(usage[q], TRUE)
       IN /\ issued + Len(triggers) <= MaxCalls
          /\ refresh(q, triggers)
          /\ startups' = [startups EXCEPT ![q] = @ + CountStartup(triggers)]
    /\ provider' = q
    /\ hasFetched' = TRUE
    /\ listeners' = ListenEffect(ListenCleanup(listeners), q)
    /\ UNCHANGED <<usage, lastRefresh, now, mounted, bannerVars, otherVars>>

\* The promise of a listen() call resolves: the subscription becomes active,
\* unless its effect was cleaned up meanwhile, and then it is removed at once.
ListenResolve(l) ==
    /\ l \in listeners
    /\ l.st = "pending"
    /\ listeners' = IF l.cancelled
                    THEN listeners \ {l}
                    ELSE (listeners \ {l}) \cup {[l EXCEPT !.st = "active"]}
    /\ last' = [ev |-> "none"]
    /\ UNCHANGED <<storeVars, now, mounted, provider, hasFetched, calls, issued,
                   startups, bannerVars, otherVars>>

\* The providers of the registered handlers, one entry per handler.
Handlers ==
    [ n \in 1..Cardinality({ l \in listeners : l.provider = "claude" }) |-> "claude" ]
    \o [ n \in 1..Cardinality({ l \in listeners : l.provider = "codex" }) |-> "codex" ]

\* refresh() called in one task once per element of ps, each call by the
\* closure of its provider (lines 11-17 each).
refreshEach(ps) ==
    LET Count(p) == Cardinality({ n \in DOMAIN ps : ps[n] = p })
    IN /\ isLoading' = [ p \in ProviderId |->
                           IF Count(p) > 0 THEN TRUE ELSE isLoading[p] ]
       /\ error' = [ p \in ProviderId |-> IF Count(p) > 0 THEN Null ELSE error[p] ]
       /\ issued' = issued + Len(ps)
       /\ calls' =
            [ k \in DOMAIN calls |->
                IF Count(calls[k].provider) > 0
                THEN [calls[k] EXCEPT !.overlapped = TRUE]
                ELSE calls[k] ]
            \o [ n \in DOMAIN ps |-> NewCall(ps[n], Count(ps[n])) ]
       /\ last' = [ev |-> "refresh", provider |-> ps[1],
                   triggers |-> [ n \in DOMAIN ps |-> "tray" ]]

\* The backend emits tray-refresh: every registered handler runs and calls
\* the refresh() of its closure (lines 37-39), whatever is in flight.
TrayRefresh ==
    /\ listeners # {}
    /\ issued + Len(Handlers) <= MaxCalls
    /\ refreshEach(Handlers)
    /\ UNCHANGED <<usage, lastRefresh, now, hookVars, startups, bannerVars, otherVars>>

\* The user clicks the header's refresh button, which is disabled while
\* isLoading[provider] (unnamed/part_000 lines 116-124).
ManualRefresh ==
    /\ mounted
    /\ ~isLoading[provider]
    /\ issued < MaxCalls
    /\ refresh(provider, <<"manual">>)
    /\ UNCHANGED <<usage, lastRefresh, now, hookVars, startups, bannerVars, otherVars>>

\* The credential-change signal for provider p: setUsage(p, null).  The
\* mounted hook re-renders; when usage[provider] changed, the refetch effect
\* re-runs with the new value.
ClearUsage(p) ==
    /\ usage' = setUsage(usage, p, Null)
    /\ LET triggers == IF mounted /\ p = provider /\ usage[p] # Null
                       THEN RefetchEffect(Null, hasFetched)
                       ELSE <<>>
       IN /\ issued + Len(triggers) <= MaxCalls
          /\ refresh(p, triggers)
    /\ UNCHANGED <<lastRefresh, now, hookVars, startups, bannerVars, otherVars>>

\* HasCredentialsResolve without the setError of line 19.
HasCredentialsResolve_NoError(k, hasCreds) ==
    /\ k \in DOMAIN calls
    /\ calls[k].pc = "hasCredentials"
    /\ LET p == calls[k].provider
       IN IF ~hasCreds
          THEN /\ isLoading' = setLoading(isLoading, p, FALSE)
               /\ calls' = Remove(k)
               /\ last' = Settle(k, "nocreds", NoCredentialsMessage)
               /\ UNCHANGED error
          ELSE /\ calls' = [calls EXCEPT ![k].pc = "fetchUsage"]
               /\ last' = [ev |-> "none"]
               /\ UNCHANGED <<error, isLoading>>
    /\ UNCHANGED <<usage, lastRefresh, now, hookVars, issued, startups, bannerVars, otherVars>>

\* HasCredentialsResolve that clears loading as soon as the credentials are
\* known, before the fetch.
HasCredentialsResolve_ClearsLoadingEarly(k, hasCreds) ==
    /\ k \in DOMAIN calls
    /\ calls[k].pc = "hasCredentials"
    /\ LET p == calls[k].provider
       IN IF ~hasCreds
          THEN /\ error' = setError(error, p, NoCredentialsMessage)
               /\ isLoading' = setLoading(isLoading, p, FALSE)
               /\ calls' = Remove(k)
               /\ last' = Settle(k, "nocreds", NoCredentialsMessage)
          ELSE /\ calls' = [calls EXCEPT ![k].pc = "fetchUsage"]
               /\ isLoading' = setLoading(isLoading, p, FALSE)
               /\ last' = [ev |-> "none"]
               /\ UNCHANGED error
    /\ UNCHANGED <<usage, lastRefresh, now, hookVars, issued, startups, bannerVars, otherVars>>

\* has_credentials answers call k (lines 17-24).
HasCredentialsResolve(k, hasCreds) ==
    /\ k \in DOMAIN calls
    /\ calls[k].pc = "hasCredentials"
    /\ LET p == calls[k].provider
       IN IF ~hasCreds
          THEN /\ error' = setError(error, p, NoCredentialsMessage)
               /\ isLoading' = setLoading(isLoading, p, FALSE)
               /\ calls' = Remove(k)
               /\ last' = Settle(k, "nocreds", NoCredentialsMessage)
          ELSE /\ calls' = [calls EXCEPT ![k].pc = "fetchUsage"]
               /\ last' = [ev |-> "none"]
               /\ UNCHANGED <<error, isLoading>>
    /\ UNCHANGED <<usage, lastRefresh, now, hookVars, issued, startups, bannerVars, otherVars>>

\* HasCredentialsReject whose catch and finally write the entries of every
\* provider.
HasCredentialsReject_AllProviders(k, err) ==
    /\ k \in DOMAIN calls
    /\ calls[k].pc = "hasCredentials"
    /\ error' = [ q \in ProviderId |-> ErrMessage(err) ]
    /\ isLoading' = [ q \in ProviderId |-> FALSE ]
    /\ calls' = Remove(k)
    /\ last' = Settle(k, "failed", err)
    /\ UNCHANGED <<usage, lastRefresh, now, hookVars, issued, startups, bannerVars, otherVars>>

\* HasCredentialsReject without the finally block of lines 30-32.
HasCredentialsReject_NoFinally(k, err) ==
    /\ k \in DOMAIN calls
    /\ calls[k].pc = "hasCredentials"
    /\ error' = setError(error, calls[k].provider, ErrMessage(err))
    /\ calls' = Remove(k)
    /\ last' = Settle(k, "failed", err)
    /\ UNCHANGED <<usage, isLoading, lastRefresh, now, hookVars, issued, startups,
                   bannerVars, otherVars>>

\* has_credentials fails for call k: catch and finally (lines 27-32).
HasCredentialsReject(k, err) ==
    /\ k \in DOMAIN calls
    /\ calls[k].pc = "hasCredentials"
    /\ LET p == calls[k].provider
       IN /\ error' = setError(error, p, ErrMessage(err))
          /\ isLoading' = setLoading(isLoading, p, FALSE)
    /\ calls' = Remove(k)
    /\ last' = Settle(k, "failed", err)
    /\ UNCHANGED <<usage, lastRefresh, now, hookVars, issued, startups, bannerVars, otherVars>>

\* FetchUsageResolve whose setUsage is conditional: a call that overlapped
\* another one does not overwrite data already in the store.
FetchUsageResolve_KeepsFirst(k) ==
    /\ k \in DOMAIN calls
    /\ calls[k].pc = "fetchUsage"
    /\ now' = now + 1
    /\ LET p == calls[k].provider
           data == UsageDataOf(p, now + 1)
       IN /\ usage' = IF calls[k].overlapped /\ usage[p] # Null
                      THEN usage
                      ELSE setUsage(usage, p, data)
          /\ lastRefresh' = setLastRefresh(lastRefresh, p, <<"Date", now + 1>>)
          /\ isLoading' = setLoading(isLoading, p, FALSE)
          /\ last' = Settle(k, "ok", data)
    /\ calls' = Remove(k)
    /\ UNCHANGED <<error, hookVars, issued, startups, bannerVars, otherVars>>

\* FetchUsageResolve without the setLastRefresh of line 26.
FetchUsageResolve_NoLastRefresh(k) ==
    /\ k \in DOMAIN calls
    /\ calls[k].pc = "fetchUsage"
    /\ now' = now + 1
    /\ LET p == calls[k].provider
           data == UsageDataOf(p, now + 1)
       IN /\ usage' = setUsage(usage, p, data)
          /\ isLoading' = setLoading(isLoading, p, FALSE)
          /\ last' = Settle(k, "ok", data)
    /\ calls' = Remove(k)
    /\ UNCHANGED <<error, lastRefresh, hookVars, issued, startups, bannerVars, otherVars>>

\* fetch_usage answers call k (lines 24-26, 30-32).  The re-render re-runs
\* the refetch effect with a non-null usage, which does nothing.
FetchUsageResolve(k) ==
    /\ k \in DOMAIN calls
    /\ calls[k].pc = "fetchUsage"
    /\ now' = now + 1
    /\ LET p == calls[k].provider
           data == UsageDataOf(p, now + 1)
       IN /\ usage' = setUsage(usage, p, data)
          /\ lastRefresh' = setLastRefresh(lastRefresh, p, <<"Date", now + 1>>)
          /\ isLoading' = setLoading(isLoading, p, FALSE)
          /\ last' = Settle(k, "ok", data)
    /\ calls' = Remove(k)
    /\ UNCHANGED <<error, hookVars, issued, startups, bannerVars, otherVars>>

\* FetchUsageReject whose catch block calls refresh() again while the usage
\* of the provider is null.
FetchUsageReject_Retries(k, err) ==
    /\ k \in DOMAIN calls
    /\ calls[k].pc = "fetchUsage"
    /\ LET p == calls[k].provider
       IN /\ error' = setError(error, p, ErrMessage(err))
          /\ IF usage[p] = Null /\ issued < MaxCalls
             THEN /\ isLoading' = setLoading(isLoading, p, TRUE)
                  /\ calls' = Append(Remove(k), NewCall(p, 1))
                  /\ issued' = issued + 1
             ELSE /\ isLoading' = setLoading(isLoading, p, FALSE)
                  /\ calls' = Remove(k)
                  /\ UNCHANGED issued
    /\ last' = Settle(k, "failed", err)
    /\ UNCHANGED <<usage, lastRefresh, now, hookVars, startups, bannerVars, otherVars>>

\* FetchUsageReject without the finally block of lines 30-32.
FetchUsageReject_NoFinally(k, err) ==
    /\ k \in DOMAIN calls
    /\ calls[k].pc = "fetchUsage"
    /\ error' = setError(error, calls[k].provider, ErrMessage(err))
    /\ calls' = Remove(k)
    /\ last' = Settle(k, "failed", err)
    /\ UNCHANGED <<usage, isLoading, lastRefresh, now, hookVars, issued, startups,
                   bannerVars, otherVars>>

\* FetchUsageReject that also stamps lastRefresh.
FetchUsageReject_SetsLastRefresh(k, err) ==
    /\ k \in DOMAIN calls
    /\ calls[k].pc = "fetchUsage"
    /\ now' = now + 1
    /\ LET p == calls[k].provider
       IN /\ error' = setError(error, p, ErrMessage(err))
          /\ lastRefresh' = setLastRefresh(lastRefresh, p, <<"Date", now + 1>>)
          /\ isLoading' = setLoading(isLoading, p, FALSE)
    /\ calls' = Remove(k)
    /\ last' = Settle(k, "failed", err)
    /\ UNCHANGED <<usage, hookVars, issued, startups, bannerVars, otherVars>>

\* FetchUsageReject that also clears the usage of the provider.
FetchUsageReject_ClearsUsage(k, err) ==
    /\ k \in DOMAIN calls
    /\ calls[k].pc = "fetchUsage"
    /\ LET p == calls[k].provider
       IN /\ error' = setError(error, p, ErrMessage(err))
          /\ usage' = setUsage(usage, p, Null)
          /\ isLoading' = setLoading(isLoading, p, FALSE)
    /\ calls' = Remove(k)
    /\ last' = Settle(k, "failed", err)
    /\ UNCHANGED <<lastRefresh, now, hookVars, issued, startups, bannerVars, otherVars>>

\* fetch_usage fails for call k: catch and finally (lines 27-32).
FetchUsageReject(k, err) ==
    /\ k \in DOMAIN calls
    /\ calls[k].pc = "fetchUsage"
    /\ LET p == calls[k].provider
       IN /\ error' = setError(error, p, ErrMessage(err))
          /\ isLoading' = setLoading(isLoading, p, FALSE)
    /\ calls' = Remove(k)
    /\ last' = Settle(k, "failed", err)
    /\ UNCHANGED <<usage, lastRefresh, now, hookVars, issued, startups, bannerVars, otherVars>>

Next ==
    \/ \E p \in ProviderId : Mount(p)
    \/ Unmount
    \/ \E q \in ProviderId : SetProvider(q)
    \/ \E l \in listeners : ListenResolve(l)
    \/ TrayRefresh
    \/ ManualRefresh
    \/ \E p \in ProviderId : ClearUsage(p)
    \/ \E k \in 1..MaxCalls, b \in BOOLEAN : HasCredentialsResolve(k, b)
    \/ \E k \in 1..MaxCalls, err \in Thrown : HasCredentialsReject(k, err)
    \/ \E k \in 1..MaxCalls : FetchUsageResolve(k)
    \/ \E k \in 1..MaxCalls, err \in Thrown : FetchUsageReject(k, err)

Spec == Init /\ [][Next]_vars

\* A backend call of some refresh() in flight is answered: hasCredentials
\* resolves or rejects, or fetchUsage resolves or rejects.
BackendAnswers ==
    \E k \in 1..MaxCalls :
        \/ \E b \in BOOLEAN : HasCredentialsResolve(k, b)
        \/ \E err \in Thrown : HasCredentialsReject(k, err)
        \/ FetchUsageResolve(k)
        \/ \E err \in Thrown : FetchUsageReject(k, err)

\* The backend answers every call: no hasCredentials or fetchUsage call stays
\* pending forever.
SpecLive == Spec /\ WF_vars(BackendAnswers)

\* ResetEffect that compares the categories of the two errors, not the strings.
ResetEffect_ByCategory(err, prevError, flag) ==
    IF detectBannerType(err) # detectBannerType(prevError)
    THEN [dismissed |-> FALSE, lastError |-> err]
    ELSE [dismissed |-> flag, lastError |-> err]

\* ResetEffect that does nothing when the error prop is null.
ResetEffect_IgnoresNull(err, prevError, flag) ==
    IF err # prevError /\ err # Null
    THEN [dismissed |-> FALSE, lastError |-> err]
    ELSE [dismissed |-> flag, lastError |-> prevError]

\* ResetEffect that records the new error and keeps the dismissed flag.
ResetEffect_KeepsFlag(err, prevError, flag) ==
    IF err # prevError
    THEN [dismissed |-> flag, lastError |-> err]
    ELSE [dismissed |-> flag, lastError |-> prevError]

\* The effect "Reset dismissed state when error changes" (UsageCard.tsx lines
\* 130-135), run with error prop err, lastError = prevError and dismissed =
\* flag: the two states it leaves.
ResetEffect(err, prevError, flag) ==
    IF err # prevError
    THEN [dismissed |-> FALSE, lastError |-> err]
    ELSE [dismissed |-> flag, lastError |-> prevError]

\* SessionBanner renders with the error prop err (UsageCard.tsx line 137):
\* bannerType = detectBannerType(error); then its effect runs, and the
\* render its state changes cause runs the effect again, which finds
\* error = lastError.
BannerRender(err) ==
    /\ bannerError' = err
    /\ bannerType' = detectBannerType(err)
    /\ LET after == ResetEffect(err, lastError, dismissed)
       IN /\ dismissed' = after.dismissed
          /\ lastError' = after.lastError
    /\ bannerPrev' = IF err # bannerError
                     THEN [type |-> bannerType, dismissed |-> dismissed]
                     ELSE bannerPrev
    /\ dismissedFor' = IF err \in {Null, dismissedFor} THEN dismissedFor ELSE Null
    /\ UNCHANGED <<usageVars, otherVars>>

\* BannerShown without the category test.
BannerShown_IgnoresType == ~dismissed

\* Whether SessionBanner renders a banner (line 148).
BannerShown == ~(dismissed \/ bannerType = Null)

\* The user clicks the X button of the banner (line 199): setDismissed(true).
Dismiss ==
    /\ BannerShown
    /\ dismissed' = TRUE
    /\ dismissedFor' = bannerError
    /\ UNCHANGED <<bannerError, bannerType, lastError, bannerPrev>>
    /\ UNCHANGED <<usageVars, otherVars>>

\* The error strings the banner is given: those of at most MaxTokens fragments.
ErrorInputs == ErrorStrings(MaxTokens)

\* Whole error messages, as the backend words them.
Examples ==
    { <<"4", "2", "9", " ", "t", "o", "o", " ", "m", "a", "n", "y", " ",
        "r", "e", "q", "u", "e", "s", "t", "s">>,
      <<"4", "2", "9", " ", "r", "a", "t", "e", " ", "l", "i", "m", "i", "t">>,
      <<"4", "0", "3", " ", "f", "o", "r", "b", "i", "d", "d", "e", "n">>,
      <<"t", "i", "m", "e", "o", "u", "t">> }

\* The next error prop: null, a fresh string, or the current one with one more
\* fragment; or the user dismisses the banner.
NextBanner ==
    \/ \E err \in {Null, <<>>} \cup Fragments \cup Examples
                  \cup (IF bannerError = Null THEN {}
                        ELSE { bannerError \o f : f \in Fragments }) :
          /\ err \in ErrorInputs \cup Examples \cup {Null}
          /\ BannerRender(err)
    \/ Dismiss

SpecBanner == Init /\ [][NextBanner]_vars

\* ------------------------------------------------- About: update controller
\* Progress events delivered in one download.
MaxChunks == 4
\* relaunch() calls awaited at one time.
MaxRelaunches == 2

\* type UpdateState (About.tsx line 14)
UpdateState ==
    {"idle", "checking", "available", "downloading", "ready", "up-to-date", "error"}

\* What check() resolves to: an Update, or null when there is none.
Updates == { <<"Update", "1", ".", "1", ".", "0">> }

\* event.data.contentLength of a Started event: absent, or a number.
ContentLengths == { <<>>, <<0>>, <<150>>, <<200>> }

\* event.data.chunkLength of a Progress event.
ChunkLengths == { 30, 50 }

\* About.tsx line 44
CheckFailedMessage ==
    << "F", "a", "i", "l", "e", "d", " ", "t", "o", " ", "c", "h", "e",
       "c", "k", " ", "f", "o", "r", " ", "u", "p", "d", "a", "t", "e",
       "s" >>

\* About.tsx line 79
DownloadFailedMessage ==
    << "F", "a", "i", "l", "e", "d", " ", "t", "o", " ", "d", "o", "w",
       "n", "l", "o", "a", "d", " ", "u", "p", "d", "a", "t", "e" >>

\* About.tsx line 89
RelaunchFailedMessage ==
    << "F", "a", "i", "l", "e", "d", " ", "t", "o", " ", "r", "e", "s",
       "t", "a", "r", "t", " ", "t", "h", "e", " ", "a", "p", "p", "l",
       "i", "c", "a", "t", "i", "o", "n" >>

\* Math.round(num / den) for num >= 0, den > 0: halves round up.
MathRound(num, den) == (2 * num + den) \div (2 * den)

\* event.data.contentLength ?? 0                               (line 62)
Coalesce(c) == IF c = <<>> THEN 0 ELSE c[1]

\* err instanceof Error ? err.message : fallback          (lines 44, 79)
MessageOr(err, fallback) == IF err.kind = "Error" THEN err.message ELSE fallback

\* The log of the values downloadProgress takes, after it is set to v.
Logged(v) == IF v = downloadProgress THEN progressLog ELSE Append(progressLog, v)

\* The process runs: no relaunch() has succeeded.
Running == gateway # "exited"

\* The parent opens the About dialog.
OpenAbout ==
    /\ Running
    /\ ~isOpen
    /\ isOpen' = TRUE
    /\ updateLast' = [ev |-> "none"]
    /\ UNCHANGED <<updateState, updateRef, downloadProgress, aboutError, gateway,
                   relaunches, totalSize, downloaded, stream, chunks, progressLog>>
    /\ UNCHANGED nonUpdateVars

\* onClose: the parent closes the dialog.  About stays mounted and renders
\* null (line 109); its state and the calls it awaits are kept.
CloseAbout ==
    /\ Running
    /\ isOpen
    /\ isOpen' = FALSE
    /\ updateLast' = [ev |-> "none"]
    /\ UNCHANGED <<updateState, updateRef, downloadProgress, aboutError, gateway,
                   relaunches, totalSize, downloaded, stream, chunks, progressLog>>
    /\ UNCHANGED nonUpdateVars

\* checkForUpdates without the setError(null) of line 31.
checkForUpdates_KeepsError ==
    /\ Running
    /\ isOpen
    /\ updateState \in {"idle", "error"}
    /\ updateState' = "checking"
    /\ gateway' = "check"
    /\ updateLast' = [ev |-> "checkForUpdates"]
    /\ UNCHANGED <<isOpen, updateRef, downloadProgress, aboutError, relaunches,
                   totalSize, downloaded, stream, chunks, progressLog>>
    /\ UNCHANGED nonUpdateVars

\* The user clicks "Check for Updates" (state idle, lines 186-196) or "Try
\* Again" (state error, lines 254-266): checkForUpdates up to its await
\* (lines 30-34).
checkForUpdates ==
    /\ Running
    /\ isOpen
    /\ updateState \in {"idle", "error"}
    /\ updateState' = "checking"
    /\ aboutError' = Null
    /\ gateway' = "check"
    /\ updateLast' = [ev |-> "checkForUpdates"]
    /\ UNCHANGED <<isOpen, updateRef, downloadProgress, relaunches, totalSize,
                   downloaded, stream, chunks, progressLog>>
    /\ UNCHANGED nonUpdateVars

\* CheckResolve that reports an update whatever check() resolved to.
CheckResolve_AlwaysAvailable(update) ==
    /\ gateway = "check"
    /\ gateway' = "none"
    /\ updateRef' = update
    /\ updateState' = "available"
    /\ updateLast' = [ev |-> "check", result |-> "resolved", value |-> update]
    /\ UNCHANGED <<isOpen, downloadProgress, aboutError, relaunches, totalSize,
                   downloaded, stream, chunks, progressLog>>
    /\ UNCHANGED nonUpdateVars

\* check() resolves with update (lines 35-41).
CheckResolve(update) ==
    /\ gateway = "check"
    /\ gateway' = "none"
    /\ IF update # Null
       THEN /\ updateRef' = update
            /\ updateState' = "available"
       ELSE /\ updateState' = "up-to-date"
            /\ UNCHANGED updateRef
    /\ updateLast' = [ev |-> "check", result |-> "resolved", value |-> update]
    /\ UNCHANGED <<isOpen, downloadProgress, aboutError, relaunches, totalSize,
                   downloaded, stream, chunks, progressLog>>
    /\ UNCHANGED nonUpdateVars

\* CheckReject without the catch block: the rejection leaves checkForUpdates.
CheckReject_Uncaught(err) ==
    /\ gateway = "check"
    /\ gateway' = "none"
    /\ updateLast' = [ev |-> "check", result |-> "failed", value |-> err]
    /\ UNCHANGED <<isOpen, updateState, updateRef, downloadProgress, aboutError,
                   relaunches, totalSize, downloaded, stream, chunks, progressLog>>
    /\ UNCHANGED nonUpdateVars

\* check() rejects with err (lines 42-46).
CheckReject(err) ==
    /\ gateway = "check"
    /\ gateway' = "none"
    /\ aboutError' = MessageOr(err, CheckFailedMessage)
    /\ updateState' = "error"
    /\ updateLast' = [ev |-> "check", result |-> "failed", value |-> err]
    /\ UNCHANGED <<isOpen, updateRef, downloadProgress, relaunches, totalSize,
                   downloaded, stream, chunks, progressLog>>
    /\ UNCHANGED nonUpdateVars

\* The user clicks "Download & Install" (state available, lines 212-226):
\* downloadAndInstall up to its await (lines 50-59).
downloadAndInstall ==
    /\ Running
    /\ isOpen
    /\ updateState = "available"
    /\ IF updateRef = Null
       THEN /\ updateLast' = [ev |-> "none"]
            /\ UNCHANGED <<updateState, downloadProgress, gateway, totalSize,
                           downloaded, stream, chunks, progressLog>>
       ELSE /\ updateState' = "downloading"
            /\ downloadProgress' = 0
            /\ totalSize' = 0
            /\ downloaded' = 0
            /\ gateway' = "download"
            /\ stream' = "none"
            /\ chunks' = <<>>
            /\ progressLog' = <<>>
            /\ updateLast' = [ev |-> "downloadAndInstall"]
    /\ UNCHANGED <<isOpen, updateRef, aboutError, relaunches>>
    /\ UNCHANGED nonUpdateVars

\* The updater delivers Started with contentLength c (lines 61-63).
OnStarted(c) ==
    /\ gateway = "download"
    /\ stream = "none"
    /\ stream' = "Started"
    /\ totalSize' = Coalesce(c)
    /\ updateLast' = [ev |-> "Started"]
    /\ UNCHANGED <<isOpen, updateState, updateRef, downloadProgress, aboutError,
                   gateway, relaunches, downloaded, chunks, progressLog>>
    /\ UNCHANGED nonUpdateVars

\* OnProgress without the test of totalSize: an unknown or zero total is taken
\* to be the bytes received so far.
OnProgress_NoTotalTest(chunkLength) ==
    /\ gateway = "download"
    /\ stream \in {"Started", "Progress"}
    /\ Len(chunks) < MaxChunks
    /\ stream' = "Progress"
    /\ downloaded' = downloaded + chunkLength
    /\ chunks' = Append(chunks, chunkLength)
    /\ LET total == IF totalSize > 0 THEN totalSize ELSE downloaded + chunkLength
       IN /\ downloadProgress' = MathRound((downloaded + chunkLength) * 100, total)
          /\ progressLog' = Logged(MathRound((downloaded + chunkLength) * 100, total))
    /\ updateLast' = [ev |-> "Progress"]
    /\ UNCHANGED <<isOpen, updateState, updateRef, aboutError, gateway,
                   relaunches, totalSize>>
    /\ UNCHANGED nonUpdateVars

\* OnProgress that divides the length of the chunk, not the running total.
OnProgress_ChunkOnly(chunkLength) ==
    /\ gateway = "download"
    /\ stream \in {"Started", "Progress"}
    /\ Len(chunks) < MaxChunks
    /\ stream' = "Progress"
    /\ downloaded' = downloaded + chunkLength
    /\ chunks' = Append(chunks, chunkLength)
    /\ IF totalSize > 0
       THEN /\ downloadProgress' = MathRound(chunkLength * 100, totalSize)
            /\ progressLog' = Logged(MathRound(chunkLength * 100, totalSize))
       ELSE UNCHANGED <<downloadProgress, progressLog>>
    /\ updateLast' = [ev |-> "Progress"]
    /\ UNCHANGED <<isOpen, updateState, updateRef, aboutError, gateway,
                   relaunches, totalSize>>
    /\ UNCHANGED nonUpdateVars

\* The updater delivers Progress with chunkLength (lines 64-69): Progress
\* events follow the Started event of their download.
OnProgress(chunkLength) ==
    /\ gateway = "download"
    /\ stream \in {"Started", "Progress"}
    /\ Len(chunks) < MaxChunks
    /\ stream' = "Progress"
    /\ downloaded' = downloaded + chunkLength
    /\ chunks' = Append(chunks, chunkLength)
    /\ IF totalSize > 0
       THEN /\ downloadProgress' = MathRound((downloaded + chunkLength) * 100, totalSize)
            /\ progressLog' = Logged(MathRound((downloaded + chunkLength) * 100, totalSize))
       ELSE UNCHANGED <<downloadProgress, progressLog>>
    /\ updateLast' = [ev |-> "Progress"]
    /\ UNCHANGED <<isOpen, updateState, updateRef, aboutError, gateway,
                   relaunches, totalSize>>
    /\ UNCHANGED nonUpdateVars

\* The updater delivers Finished (lines 70-72), after the last chunk.
OnFinished ==
    /\ gateway = "download"
    /\ stream \in {"none", "Started", "Progress"}
    /\ stream' = "Finished"
    /\ downloadProgress' = 100
    /\ progressLog' = Logged(100)
    /\ updateLast' = [ev |-> "Finished"]
    /\ UNCHANGED <<isOpen, updateState, updateRef, aboutError, gateway,
                   relaunches, totalSize, downloaded, chunks>>
    /\ UNCHANGED nonUpdateVars

\* updateRef.downloadAndInstall() resolves (line 76), the update installed.
DownloadResolve ==
    /\ gateway = "download"
    /\ stream = "Finished"
    /\ gateway' = "none"
    /\ updateState' = "ready"
    /\ updateLast' = [ev |-> "download", result |-> "resolved", value |-> Null]
    /\ UNCHANGED <<isOpen, updateRef, downloadProgress, aboutError, relaunches,
                   totalSize, downloaded, stream, chunks, progressLog>>
    /\ UNCHANGED nonUpdateVars

\* updateRef.downloadAndInstall() rejects with err (lines 77-81), at any
\* point of the download or of the installation.
DownloadReject(err) ==
    /\ gateway = "download"
    /\ gateway' = "none"
    /\ aboutError' = MessageOr(err, DownloadFailedMessage)
    /\ updateState' = "error"
    /\ updateLast' = [ev |-> "download", result |-> "failed", value |-> err]
    /\ UNCHANGED <<isOpen, updateRef, downloadProgress, relaunches, totalSize,
                   downloaded, stream, chunks, progressLog>>
    /\ UNCHANGED nonUpdateVars

\* The user clicks "Restart to Apply" (state ready, lines 241-252):
\* handleRelaunch up to its await (lines 85-86).  The button stays enabled
\* while a relaunch() call is awaited.
handleRelaunch ==
    /\ Running
    /\ isOpen
    /\ updateState = "ready"
    /\ relaunches < MaxRelaunches
    /\ relaunches' = relaunches + 1
    /\ updateLast' = [ev |-> "handleRelaunch"]
    /\ UNCHANGED <<isOpen, updateState, updateRef, downloadProgress, aboutError,
                   gateway, totalSize, downloaded, stream, chunks, progressLog>>
    /\ UNCHANGED nonUpdateVars

\* RelaunchReject that moves the controller to state error.
RelaunchReject_ToError ==
    /\ Running
    /\ relaunches > 0
    /\ relaunches' = relaunches - 1
    /\ aboutError' = RelaunchFailedMessage
    /\ updateState' = "error"
    /\ updateLast' = [ev |-> "relaunch", result |-> "failed", value |-> Null]
    /\ UNCHANGED <<isOpen, updateRef, downloadProgress, gateway, totalSize,
                   downloaded, stream, chunks, progressLog>>
    /\ UNCHANGED nonUpdateVars

\* RelaunchReject without the setError of line 89.
RelaunchReject_Silent ==
    /\ Running
    /\ relaunches > 0
    /\ relaunches' = relaunches - 1
    /\ updateLast' = [ev |-> "relaunch", result |-> "failed", value |-> Null]
    /\ UNCHANGED <<isOpen, updateState, updateRef, downloadProgress, aboutError,
                   gateway, totalSize, downloaded, stream, chunks, progressLog>>
    /\ UNCHANGED nonUpdateVars

\* relaunch() rejects (lines 87-90).
RelaunchReject ==
    /\ Running
    /\ relaunches > 0
    /\ relaunches' = relaunches - 1
    /\ aboutError' = RelaunchFailedMessage
    /\ updateLast' = [ev |-> "relaunch", result |-> "failed", value |-> Null]
    /\ UNCHANGED <<isOpen, updateState, updateRef, downloadProgress, gateway,
                   totalSize, downloaded, stream, chunks, progressLog>>
    /\ UNCHANGED nonUpdateVars

\* relaunch() takes effect: the process ends and nothing of it runs again.
RelaunchExit ==
    /\ Running
    /\ relaunches > 0
    /\ gateway' = "exited"
    /\ updateLast' = [ev |-> "relaunch", result |-> "exited", value |-> Null]
    /\ UNCHANGED <<isOpen, updateState, updateRef, downloadProgress, aboutError,
                   relaunches, totalSize, downloaded, stream, chunks, progressLog>>
    /\ UNCHANGED nonUpdateVars

NextUpdate ==
    \/ OpenAbout
    \/ CloseAbout
    \/ checkForUpdates
    \/ \E update \in Updates \cup {Null} : CheckResolve(update)
    \/ \E err \in Thrown : CheckReject(err)
    \/ downloadAndInstall
    \/ \E c \in ContentLengths : OnStarted(c)
    \/ \E n \in ChunkLengths : OnProgress(n)
    \/ OnFinished
    \/ DownloadResolve
    \/ \E err \in Thrown : DownloadReject(err)
    \/ handleRelaunch
    \/ RelaunchReject
    \/ RelaunchExit

SpecUpdate == Init /\ [][NextUpdate]_vars

\* useUsage and About run in one process and share no state: every step of
\* one leaves the variables of the other unchanged.  A behaviour of
\* SpecBoundary runs one of the two while the other rests in its initial
\* state, which gives each of them all its behaviours.
NextBoundary ==
    \/ InitUpdate /\ Next
    \/ InitStore /\ InitHook /\ NextUpdate

SpecBoundary == Init /\ [][NextBoundary]_vars

\* ------------------------------------------------------ useEventListener
\* Runs of the effect of useEventListener in one behaviour.
MaxEffects == 3

\* The effect body (useEventListener.ts lines 14-25): unmounted = false,
\* unlisten undefined, listen() called.  The event system registers the
\* handler, and the promise resolves later with the function that
\* unregisters it.
EffectRun ==
    [unmounted |-> FALSE, unlisten |-> FALSE, resolved |-> FALSE, registered |-> TRUE]

\* The cleanup of a run (lines 27-30): unmounted = true; unlisten?.()
EffectCleanup(run) ==
    [run EXCEPT !.unmounted = TRUE,
                !.registered = IF run.unlisten THEN FALSE ELSE @]

\* The cleanup of the latest run, the only one not yet cleaned up.
CleanupLatest ==
    IF runs = <<>>
    THEN runs
    ELSE [runs EXCEPT ![Len(runs)] = EffectCleanup(runs[Len(runs)])]

\* A component using the hook mounts: the effect runs.
MountListener ==
    /\ ~hookMounted
    /\ Len(runs) < MaxEffects
    /\ hookMounted' = TRUE
    /\ runs' = Append(runs, EffectRun)
    /\ delivery' = {}
    /\ UNCHANGED <<usageVars, bannerVars, updateVars, settingsVars>>

\* eventName or deps change (line 32): cleanup of the previous run, then the
\* effect runs again.
DepsChange ==
    /\ hookMounted
    /\ Len(runs) < MaxEffects
    /\ runs' = Append(CleanupLatest, EffectRun)
    /\ delivery' = {}
    /\ UNCHANGED hookMounted
    /\ UNCHANGED <<usageVars, bannerVars, updateVars, settingsVars>>

\* The component unmounts: cleanup of the latest run.
UnmountListener ==
    /\ hookMounted
    /\ hookMounted' = FALSE
    /\ runs' = CleanupLatest
    /\ delivery' = {}
    /\ UNCHANGED <<usageVars, bannerVars, updateVars, settingsVars>>

\* ListenThen that keeps the function whatever the unmounted flag is.
ListenThen_NoUnmountedTest(i) ==
    /\ i \in DOMAIN runs
    /\ ~runs[i].resolved
    /\ runs' = [runs EXCEPT ![i].resolved = TRUE, ![i].unlisten = TRUE]
    /\ delivery' = {}
    /\ UNCHANGED hookMounted
    /\ UNCHANGED <<usageVars, bannerVars, updateVars, settingsVars>>

\* The listen() promise of run i resolves with fn (lines 19-25): fn() when
\* the run was cleaned up meanwhile, unlisten = fn otherwise.
ListenThen(i) ==
    /\ i \in DOMAIN runs
    /\ ~runs[i].resolved
    /\ runs' = IF runs[i].unmounted
               THEN [runs EXCEPT ![i].resolved = TRUE, ![i].registered = FALSE]
               ELSE [runs EXCEPT ![i].resolved = TRUE, ![i].unlisten = TRUE]
    /\ delivery' = {}
    /\ UNCHANGED hookMounted
    /\ UNCHANGED <<usageVars, bannerVars, updateVars, settingsVars>>

\* The backend emits the event: every registered handler runs (lines 17-19).
EmitEvent ==
    /\ \E i \in DOMAIN runs : runs[i].registered
    /\ delivery' = { i \in DOMAIN runs : runs[i].registered }
    /\ UNCHANGED <<runs, hookMounted>>
    /\ UNCHANGED <<usageVars, bannerVars, updateVars, settingsVars>>

NextListener ==
    \/ MountListener
    \/ DepsChange
    \/ UnmountListener
    \/ \E i \in 1..MaxEffects : ListenThen(i)
    \/ EmitEvent

SpecListener == Init /\ [][NextListener]_vars

\* Every listen() call is answered: its promise resolves.
SpecListenerFair ==
    SpecListener /\ \A i \in 1..MaxEffects : WF_vars(ListenThen(i))

\* ---------------------------------------------------------------- Settings
\* getCredentials calls awaited at one time.
MaxLoads == 2

\* What the user types into the two inputs.
FieldValues == { <<>>, <<" ">>, <<" ", "o", " ">>, <<"k">> }

\* Settings.tsx line 54
RequiredMessage ==
    << "B", "o", "t", "h", " ", "O", "r", "g", "a", "n", "i", "z", "a",
       "t", "i", "o", "n", " ", "I", "D", " ", "a", "n", "d", " ", "S",
       "e", "s", "s", "i", "o", "n", " ", "K", "e", "y", " ", "a", "r",
       "e", " ", "r", "e", "q", "u", "i", "r", "e", "d" >>

\* Settings.tsx line 65
SavedMessage ==
    << "C", "r", "e", "d", "e", "n", "t", "i", "a", "l", "s", " ", "s",
       "a", "v", "e", "d", " ", "s", "u", "c", "c", "e", "s", "s", "f",
       "u", "l", "l", "y" >>

\* Settings.tsx line 85
DeletedMessage ==
    << "C", "r", "e", "d", "e", "n", "t", "i", "a", "l", "s", " ", "d",
       "e", "l", "e", "t", "e", "d" >>

\* String.prototype.trim
RECURSIVE trim(_)
trim(s) ==
    IF s = <<>> THEN s
    ELSE IF Head(s) = " " THEN trim(Tail(s))
    ELSE IF s[Len(s)] = " " THEN trim(SubSeq(s, 1, Len(s) - 1))
    ELSE s

\* The parent opens Settings: the effect of lines 26-30 calls
\* loadCredentials, which awaits getCredentials("claude") (line 34).
OpenSettings ==
    /\ ~settingsOpen
    /\ loads < MaxLoads
    /\ settingsOpen' = TRUE
    /\ loads' = loads + 1
    /\ settingsLast' = [ev |-> "none"]
    /\ UNCHANGED <<orgId, sessionKey, isSaving, isDeleting, settingsError,
                   success, hasExisting, stored, saving>>
    /\ UNCHANGED <<usageVars, bannerVars, updateVars, listenerVars>>

\* onClose: Settings stays mounted and renders null (line 93).
CloseSettings ==
    /\ settingsOpen
    /\ settingsOpen' = FALSE
    /\ settingsLast' = [ev |-> "none"]
    /\ UNCHANGED <<orgId, sessionKey, isSaving, isDeleting, settingsError,
                   success, hasExisting, stored, saving, loads>>
    /\ UNCHANGED <<usageVars, bannerVars, updateVars, listenerVars>>

\* getCredentials resolves with the stored credentials (lines 35-43).
LoadResolve ==
    /\ loads > 0
    /\ loads' = loads - 1
    /\ IF stored # Null
       THEN /\ orgId' = stored[1]
            /\ sessionKey' = stored[2]
            /\ hasExisting' = TRUE
       ELSE /\ orgId' = <<>>
            /\ sessionKey' = <<>>
            /\ hasExisting' = FALSE
    /\ settingsLast' = [ev |-> "none"]
    /\ UNCHANGED <<settingsOpen, isSaving, isDeleting, settingsError, success,
                   stored, saving>>
    /\ UNCHANGED <<usageVars, bannerVars, updateVars, listenerVars>>

\* getCredentials rejects (lines 44-46): logged, no state change.
LoadReject ==
    /\ loads > 0
    /\ loads' = loads - 1
    /\ settingsLast' = [ev |-> "none"]
    /\ UNCHANGED <<settingsOpen, orgId, sessionKey, isSaving, isDeleting,
                   settingsError, success, hasExisting, stored, saving>>
    /\ UNCHANGED <<usageVars, bannerVars, updateVars, listenerVars>>

\* The user edits the Organization ID input (line 119).
SetOrgId(v) ==
    /\ settingsOpen
    /\ v # orgId
    /\ orgId' = v
    /\ settingsLast' = [ev |-> "none"]
    /\ UNCHANGED <<settingsOpen, sessionKey, isSaving, isDeleting, settingsError,
                   success, hasExisting, stored, saving, loads>>
    /\ UNCHANGED <<usageVars, bannerVars, updateVars, listenerVars>>

\* The user edits the Session Key input (line 134).
SetSessionKey(v) ==
    /\ settingsOpen
    /\ v # sessionKey
    /\ sessionKey' = v
    /\ settingsLast' = [ev |-> "none"]
    /\ UNCHANGED <<settingsOpen, orgId, isSaving, isDeleting, settingsError,
                   success, hasExisting, stored, saving, loads>>
    /\ UNCHANGED <<usageVars, bannerVars, updateVars, listenerVars>>

\* handleSave that tests the fields as typed, without trim().
handleSave_NoTrim ==
    /\ settingsOpen
    /\ ~isSaving
    /\ success' = Null
    /\ IF orgId = <<>> \/ sessionKey = <<>>
       THEN /\ settingsError' = RequiredMessage
            /\ settingsLast' = [ev |-> "save", result |-> "invalid",
                                signalled |-> FALSE]
            /\ UNCHANGED <<isSaving, saving>>
       ELSE /\ settingsError' = Null
            /\ isSaving' = TRUE
            /\ saving' = <<trim(orgId), trim(sessionKey)>>
            /\ settingsLast' = [ev |-> "handleSave"]
    /\ UNCHANGED <<settingsOpen, orgId, sessionKey, isDeleting, hasExisting,
                   stored, loads>>
    /\ UNCHANGED <<usageVars, bannerVars, updateVars, listenerVars>>

\* The user clicks Save (line 169, disabled while isSaving): handleSave up to
\* its return of line 55 or its await of line 64.
handleSave ==
    /\ settingsOpen
    /\ ~isSaving
    /\ success' = Null
    /\ IF trim(orgId) = <<>> \/ trim(sessionKey) = <<>>
       THEN /\ settingsError' = RequiredMessage
            /\ settingsLast' = [ev |-> "save", result |-> "invalid",
                                signalled |-> FALSE]
            /\ UNCHANGED <<isSaving, saving>>
       ELSE /\ settingsError' = Null
            /\ isSaving' = TRUE
            /\ saving' = <<trim(orgId), trim(sessionKey)>>
            /\ settingsLast' = [ev |-> "handleSave"]
    /\ UNCHANGED <<settingsOpen, orgId, sessionKey, isDeleting, hasExisting,
                   stored, loads>>
    /\ UNCHANGED <<usageVars, bannerVars, updateVars, listenerVars>>

\* saveCredentials resolves (lines 65-67, 70-72): onCredentialsSaved?.() is
\* called.
SaveResolve ==
    /\ saving # Null
    /\ stored' = saving
    /\ saving' = Null
    /\ success' = SavedMessage
    /\ hasExisting' = TRUE
    /\ isSaving' = FALSE
    /\ settingsLast' = [ev |-> "save", result |-> "ok", signalled |-> TRUE]
    /\ UNCHANGED <<settingsOpen, orgId, sessionKey, isDeleting, settingsError,
                   loads>>
    /\ UNCHANGED <<usageVars, bannerVars, updateVars, listenerVars>>

\* saveCredentials rejects with err (lines 68-72).
SaveReject(err) ==
    /\ saving # Null
    /\ saving' = Null
    /\ settingsError' = ErrMessage(err)
    /\ isSaving' = FALSE
    /\ settingsLast' = [ev |-> "save", result |-> "failed", signalled |-> FALSE]
    /\ UNCHANGED <<settingsOpen, orgId, sessionKey, isDeleting, success,
                   hasExisting, stored, loads>>
    /\ UNCHANGED <<usageVars, bannerVars, updateVars, listenerVars>>

\* The user clicks Delete (lines 173-181, shown when hasExisting, disabled
\* while isDeleting): handleDelete up to its await (lines 76-81).
handleDelete ==
    /\ settingsOpen
    /\ hasExisting
    /\ ~isDeleting
    /\ settingsError' = Null
    /\ success' = Null
    /\ isDeleting' = TRUE
    /\ settingsLast' = [ev |-> "handleDelete"]
    /\ UNCHANGED <<settingsOpen, orgId, sessionKey, isSaving, hasExisting,
                   stored, saving, loads>>
    /\ UNCHANGED <<usageVars, bannerVars, updateVars, listenerVars>>

\* deleteCredentials resolves (lines 82-85, 88-90): no callback is called.
DeleteResolve ==
    /\ isDeleting
    /\ stored' = Null
    /\ orgId' = <<>>
    /\ sessionKey' = <<>>
    /\ hasExisting' = FALSE
    /\ success' = DeletedMessage
    /\ isDeleting' = FALSE
    /\ settingsLast' = [ev |-> "delete", result |-> "ok", signalled |-> FALSE]
    /\ UNCHANGED <<settingsOpen, isSaving, settingsError, saving, loads>>
    /\ UNCHANGED <<usageVars, bannerVars, updateVars, listenerVars>>

\* deleteCredentials rejects with err (lines 86-90).
DeleteReject(err) ==
    /\ isDeleting
    /\ settingsError' = ErrMessage(err)
    /\ isDeleting' = FALSE
    /\ settingsLast' = [ev |-> "delete", result |-> "failed", signalled |-> FALSE]
    /\ UNCHANGED <<settingsOpen, orgId, sessionKey, isSaving, success,
                   hasExisting, stored, saving, loads>>
    /\ UNCHANGED <<usageVars, bannerVars, updateVars, listenerVars>>

NextSettings ==
    \/ OpenSettings
    \/ CloseSettings
    \/ LoadResolve
    \/ LoadReject
    \/ \E v \in FieldValues : SetOrgId(v)
    \/ \E v \in FieldValues : SetSessionKey(v)
    \/ handleSave
    \/ SaveResolve
    \/ \E err \in Thrown : SaveReject(err)
    \/ handleDelete
    \/ DeleteResolve
    \/ \E err \in Thrown : DeleteReject(err)

SpecSettings == Init /\ [][NextSettings]_vars

\* =============================================================== claims
\* The message of a thrown value, as the store must show it.
ThrownText(t) == IF t.kind = "Error" THEN t.message ELSE t.value

\* C1: single-flight: for every provider at most one fetchUsage call is in
\* flight at any time, whatever triggers interleave.
C1_SingleFlight == \A p \in ProviderId : Cardinality(Fetching(p)) <= 1

\* C2: a refresh(P) whose hasCredentials returns false never calls
\* fetchUsage(P), and when it returns loading(P) = false and error(P) is
\* non-null.
C2_NoCredentialsGate ==
    (last.ev = "settled" /\ last.result = "nocreds")
        => /\ ~last.fetched
           /\ isLoading[last.provider] = FALSE
           /\ error[last.provider] # Null

C2_Witness ==
    /\ last.ev = "settled"
    /\ last.result = "nocreds"
    /\ Fetching(last.provider) = {}

\* C3: when a refresh(P) call returns, on every path (fetch success, fetch
\* failure, credential-check failure, credentials absent), loading(P) = false.
C3_LoadingCleared ==
    last.ev = "settled" => isLoading[last.provider] = FALSE

C3_Witness ==
    /\ last.ev = "settled"
    /\ last.result = "failed"
    /\ ~last.fetched
    /\ isLoading[last.provider] = FALSE

\* C4: when two refresh(P) calls overlap and both have returned, usage(P) and
\* error(P) come from the same attempt: the attempt that returned last with
\* fetched data (which is then usage(P)) leaves its own error(P), null, and
\* not the error of the other attempt.
C4_OneAttempt ==
    \A p \in ProviderId :
        ( /\ last.ev = "settled"
          /\ last.provider = p
          /\ last.overlapped
          /\ InFlight(p) = {}
          /\ last.result = "ok" )
        => (usage[p] = last.value /\ error[p] = Null)

\* C5: loading(P) = true implies that exactly one refresh is in flight for P.
C5_LoadingMeansOneInFlight ==
    \A p \in ProviderId : isLoading[p] => Cardinality(InFlight(p)) = 1

\* C6: a refresh(P) whose credential check or fetch fails sets error(P) to
\* the failure message and leaves usage(P) as it was: a previously fetched
\* usage is not cleared.
C6_FailureKeepsUsage ==
    [][ (last'.ev = "settled" /\ last'.result = "failed")
          => /\ error'[last'.provider] = ThrownText(last'.value)
             /\ usage' = usage ]_vars

C6_Witness ==
    /\ last.ev = "settled"
    /\ last.result = "failed"
    /\ last.fetched
    /\ usage[last.provider] # Null
    /\ error[last.provider] = <<"4", "2", "9">>

\* C7: the startup refresh (the refresh of the initial-fetch effect) is fired
\* at most once per provider in a session, also when the hook mounts again.
C7_StartupOnce == \A p \in ProviderId : startups[p] <= 1

\* C8: for the active provider P of the mounted hook with usage(P) set, the
\* credential-clear operation (usage(P) becomes null) triggers exactly one
\* refresh(P) call.
C8_ClearRefetchesOnce ==
    [][ \A p \in ProviderId :
          (mounted /\ provider = p /\ usage[p] # Null /\ usage'[p] = Null)
            => /\ last'.ev = "refresh"
               /\ last'.provider = p
               /\ last'.triggers = <<"refetch">>
               /\ Len(calls') = Len(calls) + 1
               /\ calls'[Len(calls')].provider = p
               /\ calls'[Len(calls')].pc = "hasCredentials" ]_vars

C8_Witness ==
    /\ mounted
    /\ last.ev = "refresh"
    /\ last.provider = provider
    /\ last.triggers = <<"refetch">>
    /\ usage[provider] = Null
    /\ lastRefresh[provider] # Null
    /\ startups = [p \in ProviderId |-> IF p = provider THEN 1 ELSE 0]

\* C9: a tray-refresh signal that arrives while a refresh of the provider is
\* in flight is coalesced: it issues no additional backend call.
C9_TrayCoalesced ==
    [][ \A p \in ProviderId :
          ( /\ InFlight(p) # {}
            /\ last'.ev = "refresh"
            /\ last'.provider = p
            /\ last'.triggers = <<"tray">> )
          => Len(calls') = Len(calls) ]_vars

\* The rule table of the classifier: categories in priority order, each with
\* its trigger substrings.
BannerRules ==
    << [category |-> expired,
        triggers |-> { <<"s", "e", "s", "s", "i", "o", "n", " ", "e", "x", "p", "i", "r", "e", "d">>,
                       <<"s", "e", "s", "s", "i", "o", "n", "e", "x", "p", "i", "r", "e", "d">>,
                       <<"4", "0", "1">>,
                       <<"u", "n", "a", "u", "t", "h", "o", "r", "i", "z", "e", "d">> }],
       [category |-> blocked,
        triggers |-> { <<"c", "l", "o", "u", "d", "f", "l", "a", "r", "e">>,
                       <<"b", "l", "o", "c", "k", "e", "d">>,
                       <<"4", "0", "3">> }],
       [category |-> rate_limited,
        triggers |-> { <<"r", "a", "t", "e", " ", "l", "i", "m", "i", "t">>,
                       <<"4", "2", "9">> }],
       [category |-> no_credentials,
        triggers |-> { <<"n", "o", " ", "c", "r", "e", "d", "e", "n", "t", "i", "a", "l", "s">>,
                       <<"m", "i", "s", "s", "i", "n", "g", " ", "c", "r", "e", "d", "e", "n", "t", "i", "a", "l", "s">> }] >>

\* The rules one of whose triggers occurs in the lower-cased string.
MatchingRules(s) ==
    { r \in DOMAIN BannerRules :
        \E t \in BannerRules[r].triggers : includes(toLowerCase(s), t) }

\* C10: detectBannerType(error) is the first category, in the order expired,
\* blocked, rate_limited, no_credentials, one of whose trigger substrings
\* occurs in the lower-cased error; several matches give the one of highest
\* priority, and no match gives none.
C10_FirstMatchWins ==
    bannerError # Null =>
        LET hits == MatchingRules(bannerError)
        IN IF hits = {}
           THEN bannerType = Null
           ELSE bannerType =
                  BannerRules[CHOOSE r \in hits : \A q \in hits : r <= q].category

C10_Witness ==
    /\ bannerError = <<"4", "0", "3", "4", "0", "1">>
    /\ Cardinality(MatchingRules(bannerError)) = 2
    /\ bannerType = expired

\* C11: when the banner was dismissed for one error string and the error
\* prop changes to a different string, dismissed is false for the new error
\* and, the new error having a category, its banner is shown.
C11_DismissalReset ==
    [][ ( /\ dismissed
          /\ bannerError # Null
          /\ bannerError' # Null
          /\ bannerError' # bannerError )
        => /\ dismissed' = FALSE
           /\ bannerType' # Null => BannerShown' ]_vars

C11_Witness ==
    /\ bannerPrev = [type |-> rate_limited, dismissed |-> TRUE]
    /\ bannerError = <<"4", "0", "3", " ", "f", "o", "r", "b", "i", "d", "d", "e", "n">>
    /\ bannerType = blocked
    /\ dismissed = FALSE
    /\ BannerShown

\* C12: a checkForUpdates whose check() resolves with no update passes
\* through checking and ends in up-to-date, never in error or available.
C12_NoUpdateEndsUpToDate ==
    /\ gateway = "check" => updateState = "checking"
    /\ (updateLast.ev = "check" /\ updateLast.result = "resolved"
            /\ updateLast.value = Null)
         => updateState = "up-to-date"

C12_Witness ==
    /\ updateLast = [ev |-> "check", result |-> "resolved", value |-> Null]
    /\ updateState = "up-to-date"
    /\ aboutError = Null
    /\ updateRef = Null

\* The sum of a sequence of chunk lengths.
RECURSIVE Sum(_)
Sum(s) == IF s = <<>> THEN 0 ELSE s[1] + Sum(Tail(s))

\* n is 100 * num / den rounded to the nearest integer, halves upwards.
IsRoundedPercent(n, num, den) ==
    /\ 2 * den * n - den <= 200 * num
    /\ 200 * num < 2 * den * n + den

\* C13: each Progress event of a download with a known positive total sets
\* downloadProgress to round(100 * running total of the chunk lengths / total
\* size captured at Started); for Started{contentLength: 200}, Progress
\* {chunkLength: 50} four times, Finished the values downloadProgress takes
\* are 25, 50, 75, 100 in that order, and the download that resolves ends in
\* state ready.
C13_DownloadProgress ==
    /\ (stream = "Progress" /\ totalSize > 0)
         => /\ downloaded = Sum(chunks)
            /\ IsRoundedPercent(downloadProgress, Sum(chunks), totalSize)
    /\ (stream = "Finished" /\ totalSize = 200 /\ chunks = <<50, 50, 50, 50>>)
         => progressLog = <<25, 50, 75, 100>>
    /\ (updateLast.ev = "download" /\ updateLast.result = "resolved")
         => updateState = "ready"

C13_Witness ==
    /\ updateState = "ready"
    /\ updateLast.ev = "download"
    /\ totalSize = 200
    /\ chunks = <<50, 50, 50, 50>>
    /\ progressLog = <<25, 50, 75, 100>>
    /\ downloadProgress = 100

\* The transitions of updateState the specification lists.
UpdateEdges ==
    { <<"idle", "checking">>, <<"checking", "available">>,
      <<"checking", "up-to-date">>, <<"checking", "error">>,
      <<"available", "downloading">>, <<"downloading", "downloading">>,
      <<"downloading", "ready">>, <<"downloading", "error">>,
      <<"error", "checking">> }

\* C14: updateState starts as idle, every change of it is one of the listed
\* edges, and no step changes it once it is up-to-date or ready.
C14_ListedEdgesOnly ==
    /\ updateState = "idle"
    /\ [][ /\ updateState' # updateState
                => <<updateState, updateState'>> \in UpdateEdges
           /\ updateState \in {"up-to-date", "ready"}
                => updateState' = updateState ]_vars

C14_Witness ==
    /\ updateState = "checking"
    /\ stream = "Progress"
    /\ updateRef # Null
    /\ updateLast.ev = "checkForUpdates"

\* C15: a relaunch() that fails in state ready leaves updateState = ready and
\* sets the error message; the restart button is then offered again.
C15_RelaunchFailureStaysReady ==
    (updateLast.ev = "relaunch" /\ updateLast.result = "failed")
        => /\ updateState = "ready"
           /\ aboutError = RelaunchFailedMessage
           /\ isOpen => ENABLED handleRelaunch

C15_Witness ==
    /\ updateLast.ev = "relaunch"
    /\ updateLast.result = "failed"
    /\ updateState = "ready"
    /\ aboutError # Null
    /\ isOpen
    /\ relaunches = 0

\* C16: no failure of a backend call leaves the orchestrator or the
\* controller: a refresh(P) whose hasCredentials or fetchUsage fails returns
\* with error(P) set to the failure message and loading(P) = false, and a
\* checkForUpdates or downloadAndInstall whose updater call fails ends in
\* updateState = error with the error field set.
C16_FailuresCaught ==
    /\ (last.ev = "settled" /\ last.result = "failed")
         => /\ error[last.provider] = ThrownText(last.value)
            /\ isLoading[last.provider] = FALSE
    /\ (updateLast.ev \in {"check", "download"} /\ updateLast.result = "failed")
         => /\ updateState = "error"
            /\ aboutError # Null
            /\ gateway = "none"

C16_Witness ==
    /\ last.ev = "settled"
    /\ last.result = "failed"
    /\ ~last.fetched
    /\ last.value.kind = "Error"
    /\ error[last.provider] = <<"4", "0", "1">>
    /\ Fetching(last.provider) = {}

\* C17: the handler every run of the effect of useEventListener registers
\* is unregistered after the cleanup of the run (unmount, or deps change):
\* at once when the listen() promise had resolved before the cleanup, and
\* when the promise resolves otherwise; no handler of a cleaned-up run stays
\* registered forever.
C17_ListenerReleased ==
    /\ [](\A i \in DOMAIN runs :
            (runs[i].unmounted /\ runs[i].resolved) => ~runs[i].registered)
    /\ \A i \in 1..MaxEffects :
         (i \in DOMAIN runs /\ runs[i].unmounted)
            ~> (i \in DOMAIN runs /\ ~runs[i].registered)

C17_Witness ==
    /\ Len(runs) >= 2
    /\ runs[1] = [unmounted |-> TRUE, unlisten |-> TRUE, resolved |-> TRUE,
                  registered |-> FALSE]
    /\ runs[2] = [unmounted |-> TRUE, unlisten |-> FALSE, resolved |-> TRUE,
                  registered |-> FALSE]

\* C18: the tray-refresh handler of a deactivated effect (unmount, or provider
\* change) is unregistered: a tray-refresh signal results in exactly one
\* refresh call, made for the provider of the mounted hook.
C18_TrayRefreshOnce ==
    [][ (last'.ev = "refresh" /\ last'.triggers[1] = "tray")
          => /\ mounted
             /\ Len(calls') = Len(calls) + 1
             /\ calls'[Len(calls')].provider = provider ]_vars

\* C19: a successful save and a successful delete of the credentials both
\* raise the credential-change signal (onCredentialsSaved).
C19_SaveAndDeleteSignal ==
    (settingsLast.ev \in {"save", "delete"} /\ settingsLast.result = "ok")
        => settingsLast.signalled

\* C20: a refresh(P) that succeeds and overlaps no other refresh(P) ends with
\* usage(P) the fetched UsageData itself, lastRefresh(P) the time of
\* completion, error(P) null and loading(P) = false.
C20_SuccessWritesResult ==
    (last.ev = "settled" /\ last.result = "ok" /\ ~last.overlapped)
        => /\ usage[last.provider] = last.value
           /\ lastRefresh[last.provider] = <<"Date", now>>
           /\ error[last.provider] = Null
           /\ isLoading[last.provider] = FALSE

C20_Witness ==
    /\ last.ev = "settled"
    /\ last.result = "ok"
    /\ ~last.overlapped
    /\ now = 3
    /\ usage[last.provider] = UsageDataOf(last.provider, 3)
    /\ \A q \in ProviderId \ {last.provider} : usage[q] = Null

\* C21: no automatic retry: the step in which a refresh(P) returns (with an
\* error or not) issues no refresh call, and while the hook stays mounted for
\* the same provider a refresh call is issued only by a tray-refresh signal,
\* by the manual action, or by usage(P) changing to null; a failed refresh
\* that leaves usage(P) null does not call refresh again.
C21_NoAutomaticRetry ==
    [][ /\ last'.ev = "settled" => (issued' = issued /\ Len(calls') < Len(calls))
        /\ (issued' # issued /\ mounted' = mounted /\ provider' = provider)
             => /\ last'.ev = "refresh"
                /\ \A n \in DOMAIN last'.triggers :
                     \/ last'.triggers[n] \in {"tray", "manual"}
                     \/ /\ last'.triggers[n] = "refetch"
                        /\ usage[last'.provider] # Null
                        /\ usage'[last'.provider] = Null ]_vars

C21_Witness ==
    /\ last.ev = "settled"
    /\ last.result = "failed"
    /\ last.fetched
    /\ mounted
    /\ provider = last.provider
    /\ hasFetched
    /\ usage[provider] = Null
    /\ calls = <<>>

\* C22: the store writes of one refresh(P) call come in a fixed order: the
\* step that starts the call leaves loading(P) true and error(P) null with the
\* call at the credential check; the step in which the credential check lets
\* the call go on to the fetch writes nothing to the store; usage and
\* lastRefresh are written only by the step in which a call that had passed
\* the credential check returns with data, and an error text only by a step
\* in which a call returns without data; the step in which a call returns
\* leaves loading(P) false, and the call writes nothing after it.
C22_FixedOrder ==
    [][ /\ \A n \in (Len(calls) + 1)..Len(calls') :
             /\ issued' > issued
             /\ calls'[n].pc = "hasCredentials"
             /\ isLoading'[calls'[n].provider] = TRUE
             /\ error'[calls'[n].provider] = Null
        /\ \A k \in DOMAIN calls :
             (calls[k].pc = "fetchUsage" /\ k \in DOMAIN calls' /\ Len(calls') >= Len(calls))
                => calls'[k].pc = "fetchUsage"
        /\ (\E k \in DOMAIN calls :
              /\ Len(calls') = Len(calls)
              /\ calls[k].pc = "hasCredentials"
              /\ calls'[k].pc = "fetchUsage")
             => UNCHANGED storeVars
        /\ (\E p \in ProviderId :
              \/ usage'[p] \notin {usage[p], Null}
              \/ lastRefresh'[p] # lastRefresh[p])
             => /\ last'.ev = "settled"
                /\ last'.fetched
                /\ last'.result = "ok"
        /\ (\E p \in ProviderId : error'[p] \notin {error[p], Null})
             => /\ last'.ev = "settled"
                /\ last'.result \in {"nocreds", "failed"}
        /\ last'.ev = "settled"
             => /\ isLoading'[last'.provider] = FALSE
                /\ Len(calls') = Len(calls) - 1
                /\ issued' = issued ]_vars

C22_Witness ==
    /\ last.ev = "settled"
    /\ last.result = "ok"
    /\ last.fetched
    /\ ~last.overlapped
    /\ InFlight(last.provider) = {}
    /\ isLoading[last.provider] = FALSE
    /\ error[last.provider] = Null
    /\ usage[last.provider] = last.value
    /\ lastRefresh[last.provider] = <<"Date", now>>

\* C23: when refresh(P) calls overlap and their fetches succeed, usage(P) is
\* the data of the fetch that arrived last (the data fetched at the current
\* time), whichever call was started first: the write is unconditional.
C23_LastArrivalWins ==
    \A p \in ProviderId :
        ( /\ last.ev = "settled"
          /\ last.provider = p
          /\ last.overlapped
          /\ last.result = "ok" )
        => /\ last.value = UsageDataOf(p, now)
           /\ usage[p] = UsageDataOf(p, now)

C23_Witness ==
    /\ last.ev = "settled"
    /\ last.result = "ok"
    /\ last.overlapped
    /\ issued = 2
    /\ now = 2
    /\ calls = <<>>
    /\ usage[last.provider] = UsageDataOf(last.provider, 2)

\* C24: a refresh(P) call whose backend call (hasCredentials or fetchUsage)
\* has not returned, and so also one that never returns, keeps loading(P)
\* true: while a call of P is in flight, loading(P) = true, whatever other
\* triggers for P interleave.
C24_HungCallKeepsLoading ==
    \A p \in ProviderId : InFlight(p) # {} => isLoading[p] = TRUE

\* The calls of provider q among the in-flight calls cs, in order.
CallsOn(cs, q) == SelectSeq(cs, LAMBDA c : c.provider = q)

\* C25: refresh(P) has no cross-provider effect: a step in which a call of P
\* starts, goes on or returns, and no call of another provider Q does, leaves
\* usage(Q), loading(Q), error(Q) and lastRefresh(Q) unchanged.
C25_NoCrossProviderEffect ==
    [][ \A p \in ProviderId : \A q \in ProviderId \ {p} :
          ( /\ CallsOn(calls', p) # CallsOn(calls, p)
            /\ CallsOn(calls', q) = CallsOn(calls, q) )
          => /\ usage'[q] = usage[q]
             /\ isLoading'[q] = isLoading[q]
             /\ error'[q] = error[q]
             /\ lastRefresh'[q] = lastRefresh[q] ]_vars

C25_Witness ==
    /\ last.ev = "settled"
    /\ last.provider = "claude"
    /\ usage["codex"] # Null
    /\ lastRefresh["codex"] # Null
    /\ InFlight("codex") # {}

\* C26: when the error is null, or a string in which no trigger substring
\* occurs, detectBannerType gives no category and SessionBanner renders no
\* banner, with the dismissed flag set and with it clear.
C26_NoCategoryNoBanner ==
    (bannerError = Null \/ MatchingRules(bannerError) = {})
        => /\ bannerType = Null
           /\ ~BannerShown
           /\ \A flag \in BOOLEAN : flag \/ bannerType = Null

C26_Witness ==
    /\ bannerError = <<"t", "i", "m", "e", "o", "u", "t">>
    /\ bannerPrev = [type |-> rate_limited, dismissed |-> TRUE]
    /\ bannerType = Null
    /\ ~BannerShown

\* C27: the dismissed flag is reset on a change of the raw error string, not
\* of the category: when a dismissed error is replaced by a different string
\* of the same category, dismissed becomes false and the banner is shown again.
C27_ResetByRawString ==
    [][ ( /\ dismissed
          /\ bannerType # Null
          /\ bannerError' # bannerError
          /\ bannerType' = bannerType )
        => /\ dismissed' = FALSE
           /\ lastError' = bannerError'
           /\ BannerShown' ]_vars

C27_Witness ==
    /\ bannerPrev = [type |-> rate_limited, dismissed |-> TRUE]
    /\ bannerError = <<"4", "2", "9", " ", "r", "a", "t", "e", " ", "l", "i", "m", "i", "t">>
    /\ lastError = bannerError
    /\ bannerType = rate_limited
    /\ dismissed = FALSE
    /\ BannerShown

\* C28: in a download whose total size is unknown or zero (Started with
\* contentLength absent or 0) the Progress events leave downloadProgress at
\* 0, and the Finished event sets it to 100: 100 is the only value written.
C28_UnknownTotalStaysZero ==
    /\ (stream \in {"Started", "Progress"} /\ totalSize = 0)
         => (downloadProgress = 0 /\ progressLog = <<>>)
    /\ (stream = "Finished" /\ totalSize = 0)
         => (downloadProgress = 100 /\ progressLog = <<100>>)

C28_Witness ==
    /\ stream = "Finished"
    /\ updateLast.ev = "Finished"
    /\ totalSize = 0
    /\ chunks = <<30, 50>>
    /\ downloaded = 80
    /\ progressLog = <<100>>
    /\ downloadProgress = 100

\* C29: when checkForUpdates or downloadAndInstall fails, the error field of
\* the update controller is the failure the updater raised, verbatim: the
\* message of an Error object, and the string itself when a plain string is
\* raised.
C29_FailureVerbatim ==
    (updateLast.ev \in {"check", "download"} /\ updateLast.result = "failed")
        => aboutError = ThrownText(updateLast.value)

\* C30: downloadProgress is within 0..100 in every reachable state, also when
\* the running total of the chunk lengths exceeds the content length
\* announced at Started.
C30_ProgressInRange == downloadProgress \in 0..100

\* C31: lastRefresh(P) is written only by a refresh(P) whose fetch succeeded:
\* a step that changes lastRefresh(P) is the return of a call of P with
\* fetched data, and the return of a call with no credentials, a failed
\* credential check or a failed fetch leaves lastRefresh unchanged.
C31_LastRefreshOnlyOnSuccess ==
    [][ /\ \A p \in ProviderId :
             lastRefresh'[p] # lastRefresh[p]
               => /\ last'.ev = "settled"
                  /\ last'.provider = p
                  /\ last'.fetched
                  /\ last'.result = "ok"
                  /\ lastRefresh'[p] = <<"Date", now'>>
        /\ (last'.ev = "settled" /\ last'.result \in {"nocreds", "failed"})
             => lastRefresh' = lastRefresh ]_vars

C31_Witness ==
    /\ last.ev = "settled"
    /\ last.result = "nocreds"
    /\ now = 1
    /\ lastRefresh[last.provider] = <<"Date", 1>>
    /\ error[last.provider] = NoCredentialsMessage

\* C32: in every reachable state of the update controller updateState = error
\* implies that the error field is non-null, and starting a new check
\* (checkForUpdates) leaves the error field null and the state checking.
C32_ErrorStateHasMessage ==
    /\ updateState = "error" => aboutError # Null
    /\ updateLast.ev = "checkForUpdates"
         => (aboutError = Null /\ updateState = "checking")

C32_Witness ==
    /\ updateLast.ev = "checkForUpdates"
    /\ updateState = "checking"
    /\ aboutError = Null
    /\ stream = "Started"
    /\ updateRef # Null

\* C33: a dismissed banner stays hidden only while the error prop is
\* unchanged: a render with the same error keeps dismissed, a render with a
\* null error clears dismissed and lastError, and the first error with a
\* category after a null error is shown, also when it is the very string
\* that was dismissed before the null (string -> null -> same string).
C33_RetryShowsBannerAgain ==
    [][ /\ (dismissed /\ bannerError' = bannerError) => dismissed'
        /\ bannerError' = Null => (lastError' = Null /\ dismissed' = FALSE)
        /\ (bannerError = Null /\ bannerError' # Null /\ bannerType' # Null)
             => (dismissed' = FALSE /\ BannerShown') ]_vars

C33_Witness ==
    /\ bannerError = <<"4", "0", "1">>
    /\ dismissedFor = bannerError
    /\ bannerPrev = [type |-> Null, dismissed |-> FALSE]
    /\ dismissed = FALSE
    /\ BannerShown

\* C34: the handler of useEventListener is never invoked after the cleanup of
\* its effect run (unmount, or deps change), also for an event delivered
\* between the cleanup and a late resolution of the listen() promise: no
\* event is delivered to the handler of a cleaned-up run.
C34_NoHandlerAfterCleanup ==
    \A i \in delivery : ~runs[i].unmounted

\* C35: when every hasCredentials and fetchUsage call is answered in the end
\* and the triggers stop arriving, then for every provider P the system
\* reaches, and stays in, a state with no refresh(P) in flight and
\* loading(P) = false.
C35_EventuallyIdle ==
    \A p \in ProviderId : <>[](InFlight(p) = {} /\ isLoading[p] = FALSE)

C35_Witness ==
    /\ issued = MaxCalls
    /\ calls = <<>>
    /\ last.ev = "settled"
    /\ \A p \in ProviderId : isLoading[p] = FALSE
    /\ \E p \in ProviderId : usage[p] # Null /\ error[p] # Null

\* C36: in Settings.handleSave, onCredentialsSaved is invoked only after
\* saveCredentials has succeeded: with the organization ID or the session key
\* blank after trimming no backend call is made and the callback is not
\* invoked; a backend call is made only with both fields non-blank; when
\* saveCredentials fails the callback is not invoked; and on every path that
\* started saving, isSaving is false when handleSave ends.
C36_SaveSignalsOnlyOnSuccess ==
    /\ (settingsLast.ev = "save" /\ settingsLast.signalled)
         => /\ settingsLast.result = "ok"
            /\ stored # Null
            /\ success = SavedMessage
    /\ (settingsLast.ev = "save" /\ settingsLast.result = "invalid")
         => /\ trim(orgId) = <<>> \/ trim(sessionKey) = <<>>
            /\ saving = Null
            /\ isSaving = FALSE
            /\ settingsLast.signalled = FALSE
            /\ settingsError = RequiredMessage
    /\ settingsLast.ev = "handleSave"
         => /\ trim(orgId) # <<>>
            /\ trim(sessionKey) # <<>>
            /\ saving = <<trim(orgId), trim(sessionKey)>>
            /\ isSaving = TRUE
    /\ (settingsLast.ev = "save" /\ settingsLast.result = "failed")
         => /\ settingsLast.signalled = FALSE
            /\ settingsError # Null
    /\ (settingsLast.ev = "save" /\ settingsLast.result \in {"ok", "failed"})
         => (isSaving = FALSE /\ saving = Null)

C36_Witness ==
    /\ settingsLast = [ev |-> "save", result |-> "invalid", signalled |-> FALSE]
    /\ orgId = <<"k">>
    /\ sessionKey = <<" ">>
    /\ saving = Null
    /\ isSaving = FALSE
    /\ settingsError = RequiredMessage

====
